---- MODULE Spec2Model ----
(***************************************************************************)
(* rlox-interpreter: the scope chain (environment.rs), the tree-walking    *)
(* evaluator (interpreter.rs) and the recursive-descent parser             *)
(* (parser.rs).                                                            *)
(*                                                                         *)
(* Rust's Result<T, RloxError> is a record [ok, ...]; Option<T> is a       *)
(* sequence of length 0 (None) or 1 (Some).  Environment derives Clone and *)
(* owns its enclosing Environment through Box<RefCell<..>>, so every       *)
(* .clone() is a deep copy: an Environment is a value, a nested record.    *)
(***************************************************************************)
EXTENDS Integers, Sequences, FiniteSets, TLC

VARIABLES env, last,
          statements, pc, interp, status, result, ran,
          tokens, current, parsed, pstatus, perror, trail

envVars == <<env, last>>
interpVars == <<statements, pc, interp, status, result, ran>>
parserVars == <<tokens, current, parsed, pstatus, perror, trail>>
vars == <<env, last, statements, pc, interp, status, result, ran,
          tokens, current, parsed, pstatus, perror, trail>>

None == << >>
Some(x) == <<x>>

(***************************************************************************)
(* Bounds of the model.                                                    *)
(***************************************************************************)
MaxDepth == 3
MaxStmts == 3
MaxIter == 3
MaxArgs == 2
MaxParams == 2
MaxPieces == 3
MaxPrefix == 2
MaxTokens == 3

Names == {"a", "b"}

(***************************************************************************)
(* interpreter.rs: enum Value.                                             *)
(***************************************************************************)
Str(s) == [t |-> "Str", s |-> s]
Number(n) == [t |-> "Number", n |-> n]
Bool(b) == [t |-> "Bool", b |-> b]
Func(function) == [t |-> "Func", function |-> function]
Native == [t |-> "Native"]
Nil == [t |-> "Nil"]

(***************************************************************************)
(* error.rs is not part of the sources; the variants and their fields are  *)
(* the ones the sources construct.                                         *)
(***************************************************************************)
RuntimeError(lexeme, message) ==
    [kind |-> "RuntimeError", lexeme |-> lexeme, message |-> message]
InterpreterError == [kind |-> "InterpreterError"]
ParseError(token, cur, message) ==
    [kind |-> "ParseError", token |-> token, current |-> cur, message |-> message]

(***************************************************************************)
(* scanner.rs is not part of the sources; a Token is used through its      *)
(* token_type, lexeme and literal fields.                                  *)
(***************************************************************************)
Token(token_type, lexeme, literal) ==
    [token_type |-> token_type, lexeme |-> lexeme, literal |-> literal]
Ident(name) == Token("Identifier", name, None)

(***************************************************************************)
(* environment.rs                                                          *)
(***************************************************************************)
Environment_default == [enclosing |-> None, values |-> << >>]

Environment_new(enclosing) == [enclosing |-> Some(enclosing), values |-> << >>]

\* HashMap::insert
Insert(values, name, value) ==
    [n \in DOMAIN values \cup {name} |-> IF n = name THEN value ELSE values[n]]

Environment_define(self, name, value) ==
    [self EXCEPT !.values = Insert(self.values, name, value)]

RECURSIVE Environment_get(_, _)
Environment_get(self, token) ==
    LET name == token.lexeme IN
    IF name \in DOMAIN self.values
    THEN [ok |-> TRUE, value |-> self.values[name]]
    ELSE IF self.enclosing # None
         THEN Environment_get(self.enclosing[1], token)
         ELSE [ok |-> FALSE,
               err |-> RuntimeError(name, "Undefined variable " \o name \o ".")]

\* assign takes &mut self: the result carries the Environment after the call.
RECURSIVE Environment_assign(_, _, _)

\* variant: the binding is written into the current scope whenever some scope
\* of the chain defines the name
Environment_assign_current(self, token, value) ==
    IF Environment_get(self, token).ok
    THEN [ok |-> TRUE, self |-> Environment_define(self, token.lexeme, value)]
    ELSE [ok |-> FALSE, self |-> self,
          err |-> RuntimeError(token.lexeme,
                               "Undefined variable '" \o token.lexeme \o "'.")]

\* variant: a name no scope defines is created in the root scope
RECURSIVE Environment_assign_global(_, _, _)
Environment_assign_global(self, token, value) ==
    IF token.lexeme \in DOMAIN self.values \/ self.enclosing = None
    THEN [ok |-> TRUE, self |-> Environment_define(self, token.lexeme, value)]
    ELSE LET r == Environment_assign_global(self.enclosing[1], token, value) IN
         [ok |-> TRUE, self |-> [self EXCEPT !.enclosing = Some(r.self)]]

Environment_assign(self, token, value) ==
    LET name == token.lexeme IN
    IF name \in DOMAIN self.values
    THEN [ok |-> TRUE, self |-> Environment_define(self, token.lexeme, value)]
    ELSE IF self.enclosing # None
         THEN LET r == Environment_assign(self.enclosing[1], token, value) IN
              IF r.ok
              THEN [ok |-> TRUE, self |-> [self EXCEPT !.enclosing = Some(r.self)]]
              ELSE [ok |-> FALSE, self |-> [self EXCEPT !.enclosing = Some(r.self)],
                    err |-> r.err]
         ELSE [ok |-> FALSE, self |-> self,
               err |-> RuntimeError(name, "Undefined variable '" \o name \o "'.")]

(***************************************************************************)
(* Helpers over scope chains (not code: used by the properties).           *)
(***************************************************************************)
RECURSIVE Depth(_)
Depth(e) == IF e.enclosing = None THEN 0 ELSE 1 + Depth(e.enclosing[1])

\* the scope i links out from e (0 is e itself)
RECURSIVE ScopeAt(_, _)
ScopeAt(e, i) == IF i = 0 THEN e ELSE ScopeAt(e.enclosing[1], i - 1)

Defines(e, name) == \E i \in 0..Depth(e) : name \in DOMAIN ScopeAt(e, i).values

\* index of the innermost scope of e that defines name
Owner(e, name) ==
    CHOOSE i \in 0..Depth(e) :
        /\ name \in DOMAIN ScopeAt(e, i).values
        /\ \A j \in 0..(i - 1) : name \notin DOMAIN ScopeAt(e, j).values

\* the names each scope of the chain defines, innermost first
Shape(e) == [i \in 0..Depth(e) |-> DOMAIN ScopeAt(e, i).values]

(***************************************************************************)
(* Scope chains the interpreter can build: every block adds a scope, every *)
(* var statement a binding.                                                *)
(***************************************************************************)
EnvValues == {Number(1), Number(2)}
ScopeValues == UNION {[D -> EnvValues] : D \in SUBSET Names}

RECURSIVE Chains(_)
Chains(d) ==
    IF d = 0
    THEN {[enclosing |-> None, values |-> v] : v \in ScopeValues}
    ELSE {[enclosing |-> Some(e), values |-> v] : e \in Chains(d - 1), v \in ScopeValues}

AllChains == UNION {Chains(d) : d \in 0..(MaxDepth - 1)}

IdleLast == [op |-> "none"]

EnvInit ==
    /\ env \in AllChains
    /\ last = IdleLast

DoDefine(name, value) ==
    /\ env' = Environment_define(env, name, value)
    /\ last' = [op |-> "define", name |-> name, value |-> value, before |-> env]

DoGet(name) ==
    /\ env' = env
    /\ last' = [op |-> "get", name |-> name, before |-> env,
                res |-> Environment_get(env, Ident(name))]

DoAssign(name, value) ==
    LET r == Environment_assign(env, Ident(name), value) IN
    /\ env' = r.self
    /\ last' = [op |-> "assign", name |-> name, value |-> value, before |-> env,
                res |-> [x \in DOMAIN r \ {"self"} |-> r[x]]]

DoNew ==
    /\ Depth(env) < MaxDepth - 1
    /\ env' = Environment_new(env)
    /\ last' = [op |-> "new", before |-> env]

(***************************************************************************)
(* expr.rs and stmt.rs are not part of the sources; the node variants and  *)
(* their fields are the ones parser.rs builds and interpreter.rs reads.    *)
(* Literal is the payload enum of scanner.rs.                              *)
(***************************************************************************)
LitIdentifier(s) == [lit |-> "Identifier", s |-> s]
LitStr(s) == [lit |-> "Str", s |-> s]
LitNumber(n) == [lit |-> "Number", n |-> n]
LitTrue == [lit |-> "True"]
LitFalse == [lit |-> "False"]
LitNil == [lit |-> "Nil"]

BinaryExpr(left, operator, right) ==
    [expr |-> "Binary", left |-> left, operator |-> operator, right |-> right]
GroupingExpr(expression) == [expr |-> "Grouping", expression |-> expression]
LiteralExpr(value) == [expr |-> "Literal", value |-> value]
UnaryExpr(operator, right) == [expr |-> "Unary", operator |-> operator, right |-> right]
VariableExpr(name) == [expr |-> "Variable", name |-> name]
AssignExpr(name, value) == [expr |-> "Assign", name |-> name, value |-> value]
LogicalExpr(left, operator, right) ==
    [expr |-> "Logical", left |-> left, operator |-> operator, right |-> right]
CallExpr(callee, paren, arguments) ==
    [expr |-> "Call", callee |-> callee, paren |-> paren, arguments |-> arguments]

ExpressionStmt(expression) == [stmt |-> "Expression", expression |-> expression]
PrintStmt(expression) == [stmt |-> "Print", expression |-> expression]
VarStmt(name, initializer) == [stmt |-> "Var", name |-> name, initializer |-> initializer]
BlockStmt(stmts) == [stmt |-> "Block", statements |-> stmts]
IfStmt(condition, then_branch, else_branch) ==
    [stmt |-> "If", condition |-> condition, then_branch |-> then_branch,
     else_branch |-> else_branch]
WhileStmt(condition, body) == [stmt |-> "While", condition |-> condition, body |-> body]
FunctionStmt(name, params, body) ==
    [stmt |-> "Function", name |-> name, params |-> params, body |-> body]

(***************************************************************************)
(* interpreter.rs.  `self` is the Interpreter (globals, environment)       *)
(* together with what it has written to standard output (out) and three    *)
(* history fields that record what ran: evals (every evaluate call, in     *)
(* order of completion, with its outcome), blocks (every execute_block     *)
(* call, with the current scope at entry and at return) and cut (a while   *)
(* loop was still running after MaxIter iterations).                       *)
(***************************************************************************)
Ok(self, value) == [ok |-> TRUE, self |-> self, value |-> value]
Done(self) == [ok |-> TRUE, self |-> self]
Err(self, err) == [ok |-> FALSE, self |-> self, err |-> err]

Panic(message) == [kind |-> "panic", message |-> message]

\* anything except null and false is true
is_truthy(right) ==
    IF right = Bool(FALSE) \/ right = Nil THEN FALSE ELSE TRUE

is_equal(left, right) ==
    IF left.t = "Str" /\ right.t = "Str" THEN Bool(left.s = right.s)
    ELSE IF left.t = "Number" /\ right.t = "Number" THEN Bool(left.n = right.n)
    ELSE IF left.t = "Bool" /\ right.t = "Bool" THEN Bool(left.b = right.b)
    ELSE IF left.t = "Nil" /\ right.t = "Nil" THEN Bool(TRUE)
    ELSE Bool(FALSE)

\* f64::to_string on the whole numbers the model computes with, bool::to_string
stringify(value) ==
    CASE value.t = "Str" -> value.s
      [] value.t = "Number" -> ToString(value.n)
      [] value.t = "Bool" -> (IF value.b THEN "true" ELSE "false")
      [] value.t = "Nil" -> "nil"
      [] value.t = "Func" -> "<func>"
      [] value.t = "Native" -> "<native>"

\* the match on two Number operands; the model's numbers are whole, and `/`
\* is applied only where the quotient is whole too
NumberOp(token_type, l, r) ==
    CASE token_type = "Minus" -> [ok |-> TRUE, value |-> Number(l - r)]
      [] token_type = "Slash" /\ r # 0 /\ l % r = 0 ->
            [ok |-> TRUE, value |-> Number(l \div r)]
      [] token_type = "Star" -> [ok |-> TRUE, value |-> Number(l * r)]
      [] token_type = "Plus" -> [ok |-> TRUE, value |-> Number(l + r)]
      [] token_type = "Greater" -> [ok |-> TRUE, value |-> Bool(l > r)]
      [] token_type = "GreaterEqual" -> [ok |-> TRUE, value |-> Bool(l >= r)]
      [] token_type = "Less" -> [ok |-> TRUE, value |-> Bool(l < r)]
      [] token_type = "LessEqual" -> [ok |-> TRUE, value |-> Bool(l <= r)]
      [] token_type = "EqualEqual" -> [ok |-> TRUE, value |-> Bool(l = r)]
      [] token_type = "BangEqual" -> [ok |-> TRUE, value |-> Bool(l = r)]
      [] OTHER -> [ok |-> FALSE]

\* callable.rs is not part of the sources
RloxFunction_new(stmt) == [declaration |-> stmt]
RloxFunction_arity(function) == Len(function.declaration.params)

RECURSIVE evaluate(_, _), execute(_, _), execute_block(_, _, _),
          visit_binary_expr(_, _), visit_unary_expr(_, _),
          visit_assign_expr(_, _), visit_logical_expr(_, _),
          visit_call_expr(_, _), evaluate_arguments(_, _, _, _),
          visit_print_stmt(_, _), visit_var_stmt(_, _), visit_block_stmt(_, _),
          visit_if_stmt(_, _), visit_while_stmt(_, _), while_loop(_, _, _),
          block_loop(_, _, _), RloxFunction_call(_, _, _), define_params(_, _, _, _)

visit_binary_expr(self, expr) ==
    LET left == evaluate(self, expr.left)
        right == evaluate(left.self, expr.right)
        op == expr.operator.token_type
    IN  IF ~left.ok THEN left
        ELSE IF ~right.ok THEN right
        ELSE IF left.value.t = "Number" /\ right.value.t = "Number"
             THEN LET r == NumberOp(op, left.value.n, right.value.n) IN
                  IF r.ok THEN Ok(right.self, r.value)
                  ELSE Err(right.self, InterpreterError)
        ELSE IF left.value.t = "Str" /\ right.value.t = "Str"
             THEN IF op = "Plus"
                  THEN Ok(right.self, Str(left.value.s \o right.value.s))
                  ELSE Err(right.self, InterpreterError)
        ELSE IF op = "EqualEqual"
             THEN Ok(right.self, is_equal(left.value, right.value))
        ELSE IF op = "BangEqual"
             THEN Ok(right.self, is_equal(left.value, right.value))
        ELSE Err(right.self, InterpreterError)

visit_grouping_expr(self, expr) == evaluate(self, expr.expression)

visit_literal_expr(self, expr) ==
    IF expr.value = None THEN Err(self, Panic("Valid literal expression"))
    ELSE LET l == expr.value[1] IN
         Ok(self, CASE l.lit = "Identifier" -> Str(l.s)
                    [] l.lit = "Str" -> Str(l.s)
                    [] l.lit = "Number" -> Number(l.n)
                    [] l.lit = "True" -> Bool(TRUE)
                    [] l.lit = "False" -> Bool(FALSE)
                    [] l.lit = "Nil" -> Nil)

visit_unary_expr(self, expr) ==
    LET right == evaluate(self, expr.right) IN
    IF ~right.ok THEN right
    ELSE IF expr.operator.token_type = "Minus"
         THEN IF right.value.t = "Number"
              THEN Ok(right.self, Number(0 - right.value.n))
              ELSE Err(right.self, InterpreterError)
    ELSE IF expr.operator.token_type = "Bang"
         THEN Ok(right.self, Bool(~is_truthy(right.value)))
    ELSE Err(right.self, InterpreterError)

visit_variable_expr(self, variable) ==
    LET r == Environment_get(self.environment, variable.name) IN
    IF r.ok THEN Ok(self, r.value) ELSE Err(self, r.err)

visit_assign_expr(self, assign) ==
    LET value == evaluate(self, assign.value)
        r == Environment_assign(value.self.environment, assign.name, value.value)
        after == [value.self EXCEPT !.environment = r.self]
    IN  IF ~value.ok THEN value
        ELSE IF ~r.ok THEN Err(after, r.err)
        ELSE Ok(after, value.value)

\* variant: the right operand is evaluated before the left value is looked at
visit_logical_expr_eager(self, visitor) ==
    LET left == evaluate(self, visitor.left)
        right == evaluate(left.self, visitor.right)
    IN  IF ~left.ok THEN left
        ELSE IF ~right.ok THEN right
        ELSE IF visitor.operator.token_type = "Or" /\ is_truthy(left.value)
             THEN Ok(right.self, left.value)
        ELSE IF visitor.operator.token_type # "Or" /\ ~is_truthy(left.value)
             THEN Ok(right.self, left.value)
        ELSE right

visit_logical_expr(self, visitor) ==
    LET left == evaluate(self, visitor.left) IN
    IF ~left.ok THEN left
    ELSE IF visitor.operator.token_type = "Or" /\ is_truthy(left.value) THEN left
    ELSE IF visitor.operator.token_type # "Or" /\ ~is_truthy(left.value) THEN left
    ELSE evaluate(left.self, visitor.right)

\* the loop `for args in &expr.arguments`, from argument i on
evaluate_arguments(self, args, i, arguments) ==
    IF i > Len(args) THEN [ok |-> TRUE, self |-> self, arguments |-> arguments]
    ELSE LET r == evaluate(self, args[i]) IN
         IF ~r.ok THEN r
         ELSE evaluate_arguments(r.self, args, i + 1, Append(arguments, r.value))

\* variant: the argument count is not compared with the arity
visit_call_expr_unchecked(self, expr) ==
    LET callee == evaluate(self, expr.callee)
        args == evaluate_arguments(callee.self, expr.arguments, 1, << >>)
    IN  IF ~callee.ok THEN callee
        ELSE IF ~args.ok THEN args
        ELSE IF callee.value.t = "Func"
             THEN RloxFunction_call(callee.value.function, args.self, args.arguments)
        ELSE Err(args.self, InterpreterError)

visit_call_expr(self, expr) ==
    LET callee == evaluate(self, expr.callee)
        args == evaluate_arguments(callee.self, expr.arguments, 1, << >>)
    IN  IF ~callee.ok THEN callee
        ELSE IF ~args.ok THEN args
        ELSE IF callee.value.t = "Func"
             THEN IF Len(args.arguments) # RloxFunction_arity(callee.value.function)
                  THEN Err(args.self, InterpreterError)
                  ELSE RloxFunction_call(callee.value.function, args.self,
                                         args.arguments)
        ELSE Err(args.self, InterpreterError)

evaluate(self, expr) ==
    LET r == CASE expr.expr = "Binary" -> visit_binary_expr(self, expr)
               [] expr.expr = "Grouping" -> visit_grouping_expr(self, expr)
               [] expr.expr = "Literal" -> visit_literal_expr(self, expr)
               [] expr.expr = "Unary" -> visit_unary_expr(self, expr)
               [] expr.expr = "Variable" -> visit_variable_expr(self, expr)
               [] expr.expr = "Assign" -> visit_assign_expr(self, expr)
               [] expr.expr = "Logical" -> visit_logical_expr(self, expr)
               [] expr.expr = "Call" -> visit_call_expr(self, expr)
        entry == IF r.ok THEN [expr |-> expr, ok |-> TRUE, value |-> r.value]
                 ELSE [expr |-> expr, ok |-> FALSE, err |-> r.err]
    IN  [r EXCEPT !.self.evals = Append(@, entry)]

visit_expression_stmt(self, stmt) ==
    LET r == evaluate(self, stmt.expression) IN
    IF ~r.ok THEN r ELSE Done(r.self)

visit_print_stmt(self, visitor) ==
    LET value == evaluate(self, visitor.expression) IN
    IF ~value.ok THEN value
    ELSE Done([value.self EXCEPT !.out = Append(@, stringify(value.value))])

visit_var_stmt(self, stmt) ==
    LET value == IF stmt.initializer # None
                 THEN evaluate(self, stmt.initializer[1])
                 ELSE Ok(self, Nil)
    IN  IF ~value.ok THEN value
        ELSE Done([value.self EXCEPT !.environment =
                        Environment_define(@, stmt.name.lexeme, value.value)])

visit_block_stmt(self, stmt) ==
    execute_block(self, stmt.statements, Environment_new(self.environment))

visit_if_stmt(self, stmt) ==
    LET c == evaluate(self, stmt.condition) IN
    IF ~c.ok THEN c
    ELSE IF is_truthy(c.value) THEN execute(c.self, stmt.then_branch)
    ELSE IF stmt.else_branch # None THEN execute(c.self, stmt.else_branch[1])
    ELSE Done(c.self)

\* the loop of visit_while_stmt, n iterations in
while_loop(self, stmt, n) ==
    LET c == evaluate(self, stmt.condition)
        b == execute(c.self, stmt.body)
    IN  IF ~c.ok THEN c
        ELSE IF ~is_truthy(c.value) THEN Done(c.self)
        ELSE IF n >= MaxIter THEN Done([c.self EXCEPT !.cut = TRUE])
        ELSE IF ~b.ok THEN b
        ELSE while_loop(b.self, stmt, n + 1)

visit_while_stmt(self, stmt) == while_loop(self, stmt, 0)

visit_function_stmt(self, stmt) ==
    LET function == RloxFunction_new(stmt) IN
    Done([self EXCEPT !.environment =
              Environment_define(@, stmt.name.lexeme, Func(function))])

execute(self, statement) ==
    CASE statement.stmt = "Expression" -> visit_expression_stmt(self, statement)
      [] statement.stmt = "Print" -> visit_print_stmt(self, statement)
      [] statement.stmt = "Var" -> visit_var_stmt(self, statement)
      [] statement.stmt = "Block" -> visit_block_stmt(self, statement)
      [] statement.stmt = "If" -> visit_if_stmt(self, statement)
      [] statement.stmt = "While" -> visit_while_stmt(self, statement)
      [] statement.stmt = "Function" -> visit_function_stmt(self, statement)

\* the loop `for statement in statements` of execute_block, from statement i on
block_loop(self, stmts, i) ==
    IF i > Len(stmts) THEN Done(self)
    ELSE LET r == execute(self, stmts[i]) IN
         IF ~r.ok THEN r ELSE block_loop(r.self, stmts, i + 1)

\* `previous` receives the scope that was current; the closing mem::swap
\* exchanges it with a temporary clone of the enclosing scope, so the local
\* pair (swapped) changes and self.environment does not.
execute_block(self, stmts, new_env) ==
    LET previous == self.environment
        entered == [self EXCEPT !.environment = new_env]
        res == block_loop(entered, stmts, 1)
        enclosing == res.self.environment.enclosing
        swapped == IF enclosing # None
                   THEN [previous |-> enclosing[1], temporary |-> previous]
                   ELSE [previous |-> previous]
    IN  [res EXCEPT !.self.blocks =
            Append(@, [before |-> previous, after |-> res.self.environment,
                       ok |-> res.ok])]

\* callable.rs is not part of the sources.  RloxFunction::new receives the
\* declaration alone, so the scope a call encloses is the interpreter's
\* public `globals`; the parameters are bound in the new scope, the body runs
\* as a block and the call yields Nil.
define_params(environment, params, arguments, i) ==
    IF i > Len(params) \/ i > Len(arguments) THEN environment
    ELSE define_params(Environment_define(environment, params[i].lexeme, arguments[i]),
                       params, arguments, i + 1)

RloxFunction_call(function, self, arguments) ==
    LET environment == define_params(Environment_new(self.globals),
                                     function.declaration.params, arguments, 1)
        r == execute_block(self, function.declaration.body, environment)
    IN  IF ~r.ok THEN r ELSE Ok(r.self, Nil)

Interpreter_new ==
    LET globals == Environment_define(Environment_default, "clock", Native) IN
    [globals |-> globals, environment |-> globals,
     out |-> << >>, evals |-> << >>, blocks |-> << >>, cut |-> FALSE]

(***************************************************************************)
(* Interpreter::interpret as a state machine: pc is the position of the    *)
(* `for statement in statements` loop, status and result the return of     *)
(* interpret.  ran is the history of the top-level statements executed:    *)
(* index, interpreter before and after, outcome.                           *)
(***************************************************************************)
Ran(r) ==
    IF r.ok
    THEN [index |-> pc, before |-> interp, after |-> r.self, ok |-> TRUE]
    ELSE [index |-> pc, before |-> interp, after |-> r.self, ok |-> FALSE,
          err |-> r.err]

\* `self.execute(statement)?` returned Ok: the loop moves to the next statement
interpret_next(r) ==
    /\ r.ok
    /\ interp' = r.self
    /\ ran' = Append(ran, Ran(r))
    /\ pc' = pc + 1
    /\ UNCHANGED <<statements, status, result>>

\* variant: a failing statement is remembered and the loop goes on
interpret_fail_continue(r) ==
    /\ ~r.ok
    /\ interp' = r.self
    /\ ran' = Append(ran, Ran(r))
    /\ pc' = pc + 1
    /\ result' = Some([ok |-> FALSE, err |-> r.err])
    /\ UNCHANGED <<statements, status>>

\* `self.execute(statement)?` returned Err: interpret returns it
interpret_fail(r) ==
    /\ ~r.ok
    /\ interp' = r.self
    /\ ran' = Append(ran, Ran(r))
    /\ result' = Some([ok |-> FALSE, err |-> r.err])
    /\ status' = "returned"
    /\ UNCHANGED <<statements, pc>>

\* the loop is over: Ok(())
interpret_return ==
    /\ status = "running"
    /\ pc > Len(statements)
    /\ status' = "returned"
    /\ result' = Some([ok |-> TRUE])
    /\ UNCHANGED <<statements, pc, interp, ran>>

(***************************************************************************)
(* The programs interpret is given.                                        *)
(***************************************************************************)
Lexemes ==
    {<<"Minus", "-">>, <<"Slash", "/">>, <<"Star", "*">>, <<"Plus", "+">>,
     <<"Greater", ">">>, <<"GreaterEqual", ">=">>, <<"Less", "<">>,
     <<"LessEqual", "<=">>, <<"EqualEqual", "==">>, <<"BangEqual", "!=">>,
     <<"Bang", "!">>, <<"Or", "or">>, <<"And", "and">>, <<"LeftParen", "(">>,
     <<"RightParen", ")">>, <<"LeftBrace", "{">>, <<"RightBrace", "}">>,
     <<"Semicolon", ";">>, <<"Comma", ",">>, <<"Equal", "=">>, <<"If", "if">>,
     <<"Else", "else">>, <<"For", "for">>, <<"While", "while">>,
     <<"Print", "print">>, <<"Var", "var">>, <<"Fun", "fun">>,
     <<"Class", "class">>, <<"Return", "return">>, <<"True", "true">>,
     <<"False", "false">>, <<"Nil", "nil">>, <<"Eof", "">>}
OpLexeme(token_type) == (CHOOSE p \in Lexemes : p[1] = token_type)[2]
Op(token_type) == Token(token_type, OpLexeme(token_type), None)

Num(n) == LiteralExpr(Some(LitNumber(n)))
Text(s) == LiteralExpr(Some(LitStr(s)))
Variable(name) == VariableExpr(Ident(name))
Assign(name, e) == AssignExpr(Ident(name), e)
Binary(l, op, r) == BinaryExpr(l, Op(op), r)

VarA1 == VarStmt(Ident("a"), Some(Num(1)))
PrintA == PrintStmt(Variable("a"))
\* { var a = 2; print a; }
ShadowBlock == BlockStmt(<<VarStmt(Ident("a"), Some(Num(2))), PrintA>>)
\* { a = 2; print b; print a; }
FailingBlock ==
    BlockStmt(<<ExpressionStmt(Assign("a", Num(2))), PrintStmt(Variable("b")), PrintA>>)
\* { var b = 1; { var a = 3; } }
NestedBlock ==
    BlockStmt(<<VarStmt(Ident("b"), Some(Num(1))),
                BlockStmt(<<VarStmt(Ident("a"), Some(Num(3)))>>)>>)
\* a = 2;
AssignA2 == ExpressionStmt(Assign("a", Num(2)))
\* while (a < 3) { a = a + 1; }
CountLoop ==
    WhileStmt(Binary(Variable("a"), "Less", Num(3)),
              BlockStmt(<<ExpressionStmt(
                  Assign("a", Binary(Variable("a"), "Plus", Num(1))))>>))
\* if (a == 1) print a; else { }
IfA == IfStmt(Binary(Variable("a"), "EqualEqual", Num(1)), PrintA, Some(BlockStmt(<< >>)))

StmtPool == {VarA1, PrintA, ShadowBlock, FailingBlock, NestedBlock, AssignA2,
             CountLoop, IfA}

RECURSIVE SeqsUpTo(_, _)
SeqsUpTo(S, n) ==
    IF n = 0 THEN {<< >>}
    ELSE LET shorter == SeqsUpTo(S, n - 1) IN
         shorter \cup {Append(q, x) : q \in {p \in shorter : Len(p) = n - 1}, x \in S}

SequencePrograms == SeqsUpTo(StmtPool, MaxStmts) \ {<< >>}

\* print l == r;  print l != r;
Literals == {LitNumber(1), LitNumber(2), LitStr("x"), LitStr("y"),
             LitTrue, LitFalse, LitNil}
EqualityPrograms ==
    {<<PrintStmt(Binary(LiteralExpr(Some(l)), op, LiteralExpr(Some(r))))>> :
        l \in Literals, r \in Literals, op \in {"EqualEqual", "BangEqual"}}

\* fun f(params) { print "f"; }  var a = 1;  callee(arguments);
ParamLists == {SubSeq(<<Ident("x"), Ident("y"), Ident("z")>>, 1, n) : n \in 0..MaxParams}
Callees == {Variable("f"), Variable("clock"), Variable("b"), Text("s"), Num(1),
            LiteralExpr(Some(LitTrue)), LiteralExpr(Some(LitNil))}
ArgPool == {Num(1), Assign("a", Num(2)), Assign("a", Num(3)), Variable("b")}
CallPrograms ==
    {<<FunctionStmt(Ident("f"), params, <<PrintStmt(Text("f"))>>), VarA1,
       ExpressionStmt(CallExpr(callee, Op("RightParen"), arguments))>> :
        params \in ParamLists, callee \in Callees,
        arguments \in SeqsUpTo(ArgPool, MaxArgs)}

\* var a = 1;  left or right;  (or: left and right;)  print a;
Lefts == {LiteralExpr(Some(LitTrue)), LiteralExpr(Some(LitFalse)),
          LiteralExpr(Some(LitNil)), Num(0), Text(""), Variable("a"),
          Variable("b")}
Rights == {Assign("a", Num(2)), Variable("b"), Num(3), LiteralExpr(Some(LitNil))}
LogicalPrograms ==
    {<<VarA1, ExpressionStmt(LogicalExpr(left, Op(op), right)), PrintA>> :
        left \in Lefts, right \in Rights, op \in {"Or", "And"}}

\* fun f() { print a; }
FunPrintA == FunctionStmt(Ident("f"), << >>, <<PrintA>>)
CallOf(name) == ExpressionStmt(CallExpr(Variable(name), Op("RightParen"), << >>))

\* { var a = 1; fun f() { print a; } a = later; f(); }
ClosureInBlock(later) ==
    <<BlockStmt(<<VarA1, FunPrintA, ExpressionStmt(Assign("a", later)), CallOf("f")>>)>>
\* var a = 1; fun f() { print a; } a = later; { var a = 3; f(); }
ClosureShadowed(later) ==
    <<VarA1, FunPrintA, ExpressionStmt(Assign("a", later)),
      BlockStmt(<<VarStmt(Ident("a"), Some(Num(3))), CallOf("f")>>)>>
\* var b; { var a = 1; fun f() { print a; } b = f; a = later; } b();
ClosureEscaped(later) ==
    <<VarStmt(Ident("b"), None),
      BlockStmt(<<VarA1, FunPrintA, ExpressionStmt(Assign("b", Variable("f"))),
                  ExpressionStmt(Assign("a", later))>>),
      CallOf("b")>>

\* the value assigned after the declaration and what print writes for it
Laters == {[expr |-> Num(2), text |-> "2"], [expr |-> Text("x"), text |-> "x"]}
ClosurePrograms ==
    UNION {{ClosureInBlock(later.expr), ClosureShadowed(later.expr),
            ClosureEscaped(later.expr)} : later \in Laters}

Programs ==
    SequencePrograms \cup EqualityPrograms \cup CallPrograms \cup LogicalPrograms
        \cup ClosurePrograms

(***************************************************************************)
(* parser.rs.  `p` is the Parser (tokens, current); current counts from 0  *)
(* as in the source, sequences from 1.  A parsing method returns the       *)
(* Parser after the call with Ok(node) or Err(err).  Where a method goes   *)
(* on after a call of another parsing method, the rest of the method is an *)
(* operator of its own that receives what the call returned.  A call      *)
(* `self.m()` of a parsing method is written method("m", p).  p.trail is  *)
(* the history of the cursor: one Moved entry per call of advance, per     *)
(* call of previous in synchronize, per failing consume and per            *)
(* declaration, with the cursor before and after and the error if any.     *)
(***************************************************************************)
Moved(p, op, from, err) ==
    [p EXCEPT !.trail = Append(@, [op |-> op, from |-> from, to |-> p.current,
                                   err |-> err])]

Good(p, node) == [ok |-> TRUE, p |-> p, node |-> node]
Fail(p, err) == [ok |-> FALSE, p |-> p, err |-> err]

peek(p) == p.tokens[p.current + 1]

\* `self.tokens[self.current - 1]` at cursor 0 panics (the subtraction
\* overflows or the index is out of range); the token "Panic" stands for it
previous(p) == IF p.current = 0 THEN Token("Panic", "", None) ELSE p.tokens[p.current]

is_end(p) == peek(p).token_type = "Eof"

\* `if self.is_end() { false; }` is a statement without effect
check(p, token) == peek(p).token_type = token

\* the Parser after advance(); the Token it returns is previous() of it
advance(p) ==
    Moved(IF ~is_end(p) THEN [p EXCEPT !.current = @ + 1] ELSE p,
          "advance", p.current, None)

\* match_token: whether one of the types is at the cursor (the Parser after a
\* successful match_token is advance(p))
match_token(p, token_type) == \E i \in DOMAIN token_type : check(p, token_type[i])

\* variant: a failing consume steps over the token it did not expect
consume_skipping(p, token, message) ==
    IF check(p, token)
    THEN [ok |-> TRUE, p |-> advance(p), token |-> previous(advance(p))]
    ELSE Fail(Moved(advance(p), "consume", p.current,
                    Some(ParseError(p.tokens[p.current + 1], p.current, message))),
              ParseError(p.tokens[p.current + 1], p.current, message))

consume(p, token, message) ==
    IF check(p, token)
    THEN [ok |-> TRUE, p |-> advance(p), token |-> previous(advance(p))]
    ELSE Fail(Moved(p, "consume", p.current,
                    Some(ParseError(p.tokens[p.current + 1], p.current, message))),
              ParseError(p.tokens[p.current + 1], p.current, message))

RECURSIVE synchronize_loop(_)
synchronize_loop(p) ==
    IF is_end(p) THEN p
    ELSE IF previous(p).token_type = "Semicolon" THEN Moved(p, "previous", p.current, None)
    ELSE IF peek(p).token_type \in {"Class", "Fun", "Var", "For", "If", "While",
                                    "Print", "Return"}
         THEN Moved(p, "previous", p.current, None)
    ELSE synchronize_loop(advance(Moved(p, "previous", p.current, None)))

synchronize(p) == synchronize_loop(advance(p))

RECURSIVE expression(_), assignment(_), assignment_rest(_), assignment_value(_, _, _),
          or(_), or_loop(_), or_right(_, _, _),
          and(_), and_loop(_), and_right(_, _, _),
          equality(_), equality_loop(_), equality_right(_, _, _),
          comparison(_), comparison_loop(_), comparison_right(_, _, _),
          term(_), term_loop(_), term_right(_, _, _),
          factor(_), factor_loop(_), factor_right(_, _, _),
          unary(_), unary_operand(_), call(_), call_loop(_),
          finish_call(_, _), finish_call_arguments(_, _, _),
          finish_call_push(_, _, _), primary(_), primary_grouping(_),
          statement(_), statement_block(_), declaration(_), declaration_result(_, _),
          block(_), block_statements(_, _), block_push(_, _),
          print_statement(_), print_value(_),
          expression_statement(_), expression_value(_),
          var_declaration(_), var_initializer(_, _),
          if_statement(_), if_condition(_), if_then(_, _), if_else(_, _, _),
          while_statement(_), while_condition(_), while_body(_, _),
          for_statement(_), for_initializer(_), for_clauses(_, _),
          for_condition(_, _), for_increment(_, _, _),
          for_increment_value(_, _, _), for_body(_, _, _, _),
          for_desugar(_, _, _, _),
          fun_declaration(_, _), fun_parameters(_, _, _, _),
          fun_braces(_, _, _, _), fun_body(_, _, _), method(_, _)

expression(p) == method("assignment", p)

equality(p) == equality_loop(method("comparison", p))

equality_loop(expr) ==
    IF ~expr.ok THEN expr
    ELSE IF match_token(expr.p, <<"BangEqual", "EqualEqual">>)
         THEN equality_right(expr.node, previous(advance(expr.p)),
                             method("comparison", advance(expr.p)))
    ELSE expr

equality_right(expr, operator, right) ==
    IF ~right.ok THEN right
    ELSE equality_loop(Good(right.p, BinaryExpr(expr, operator, right.node)))

comparison(p) == comparison_loop(method("term", p))

comparison_loop(expr) ==
    IF ~expr.ok THEN expr
    ELSE IF match_token(expr.p, <<"Greater", "GreaterEqual", "Less", "LessEqual">>)
         THEN comparison_right(expr.node, previous(advance(expr.p)),
                               method("term", advance(expr.p)))
    ELSE expr

comparison_right(expr, operator, right) ==
    IF ~right.ok THEN right
    ELSE comparison_loop(Good(right.p, BinaryExpr(expr, operator, right.node)))

term(p) == term_loop(method("factor", p))

term_loop(expr) ==
    IF ~expr.ok THEN expr
    ELSE IF match_token(expr.p, <<"Minus", "Plus">>)
         THEN term_right(expr.node, previous(advance(expr.p)),
                         method("factor", advance(expr.p)))
    ELSE expr

term_right(expr, operator, right) ==
    IF ~right.ok THEN right
    ELSE term_loop(Good(right.p, BinaryExpr(expr, operator, right.node)))

factor(p) == factor_loop(method("unary", p))

factor_loop(expr) ==
    IF ~expr.ok THEN expr
    ELSE IF match_token(expr.p, <<"Slash", "Star">>)
         THEN factor_right(expr.node, previous(advance(expr.p)),
                           method("unary", advance(expr.p)))
    ELSE expr

factor_right(expr, operator, right) ==
    IF ~right.ok THEN right
    ELSE factor_loop(Good(right.p, BinaryExpr(expr, operator, right.node)))

\* the Unary node is built in a statement of its own and dropped; the method
\* then returns self.call() from where the operand ended
unary(p) ==
    IF match_token(p, <<"Bang", "Minus">>)
    THEN unary_operand(method("unary", advance(p)))
    ELSE method("call", p)

unary_operand(right) == IF ~right.ok THEN right ELSE method("call", right.p)

primary(p) ==
    IF match_token(p, <<"False">>)
    THEN Good(advance(p), LiteralExpr(Some(LitFalse)))
    ELSE IF match_token(p, <<"True">>)
    THEN Good(advance(p), LiteralExpr(Some(LitTrue)))
    ELSE IF match_token(p, <<"Nil">>)
    THEN Good(advance(p), LiteralExpr(Some(LitNil)))
    ELSE IF match_token(p, <<"Number", "String">>)
    THEN Good(advance(p), LiteralExpr(previous(advance(p)).literal))
    ELSE IF match_token(p, <<"Identifier">>)
    THEN Good(advance(p), VariableExpr(previous(advance(p))))
    ELSE IF match_token(p, <<"LeftParen">>)
    THEN primary_grouping(method("expression", advance(p)))
    ELSE Fail(p, ParseError(p.tokens[p.current + 1], p.current, "failed to parse"))

primary_grouping(expr) ==
    IF ~expr.ok THEN expr
    ELSE LET c == consume(expr.p, "RightParen", "Expect ')' after expression.") IN
         IF ~c.ok THEN c ELSE Good(c.p, GroupingExpr(expr.node))

statement(p) ==
    IF match_token(p, <<"If">>) THEN method("if_statement", advance(p))
    ELSE IF match_token(p, <<"For">>) THEN method("for_statement", advance(p))
    ELSE IF match_token(p, <<"While">>) THEN method("while_statement", advance(p))
    ELSE IF match_token(p, <<"Print">>) THEN method("print_statement", advance(p))
    ELSE IF match_token(p, <<"LeftBrace">>) THEN statement_block(method("block", advance(p)))
    ELSE method("expression_statement", p)

statement_block(stmts) ==
    IF ~stmts.ok THEN stmts ELSE Good(stmts.p, BlockStmt(stmts.node))

\* `self.consume(TokenType::Semicolon, message)?` and the Ok(stmt) after it
semicolon_after(p, message, stmt) ==
    LET c == consume(p, "Semicolon", message) IN
    IF ~c.ok THEN c ELSE Good(c.p, stmt)

print_statement(p) == print_value(method("expression", p))

print_value(value) ==
    IF ~value.ok THEN value
    ELSE semicolon_after(value.p, "Expect ';' after value.", PrintStmt(value.node))

expression_statement(p) == expression_value(method("expression", p))

expression_value(value) ==
    IF ~value.ok THEN value
    ELSE semicolon_after(value.p, "Expect ';' after expression.",
                         ExpressionStmt(value.node))

declaration(p) ==
    declaration_result(
        p.current,
        IF match_token(p, <<"Fun">>) THEN fun_declaration(advance(p), "function")
        ELSE IF match_token(p, <<"Var">>) THEN method("var_declaration", advance(p))
        ELSE method("statement", p))

declaration_result(from, res) ==
    IF ~res.ok
    THEN [res EXCEPT !.p = Moved(synchronize(res.p), "declaration", from, Some(res.err))]
    ELSE [res EXCEPT !.p = Moved(res.p, "declaration", from, None)]

var_declaration(p) ==
    LET name == consume(p, "Identifier", "expect variable name") IN
    IF ~name.ok THEN name
    ELSE IF match_token(name.p, <<"Equal">>)
         THEN var_initializer(name.token, method("expression", advance(name.p)))
    ELSE semicolon_after(name.p, "Expect ';' after value.", VarStmt(name.token, None))

var_initializer(name, res) ==
    IF ~res.ok THEN res
    ELSE semicolon_after(res.p, "Expect ';' after value.",
                         VarStmt(name, Some(res.node)))

assignment(p) == assignment_rest(method("or", p))

assignment_rest(expr) ==
    IF ~expr.ok THEN expr
    ELSE IF match_token(expr.p, <<"Equal">>)
         THEN assignment_value(expr.node, previous(advance(expr.p)),
                               method("assignment", advance(expr.p)))
    ELSE expr

assignment_value(expr, equals, value) ==
    IF ~value.ok THEN value
    ELSE IF expr.expr = "Variable"
         THEN Good(value.p, AssignExpr(expr.name, value.node))
    ELSE Fail(value.p, ParseError(equals, value.p.current, "Invalid assignment target."))

block(p) == block_statements(p, << >>)

block_statements(p, stmts) ==
    IF ~check(p, "RightBrace") /\ ~is_end(p)
    THEN block_push(stmts, method("declaration", p))
    ELSE LET c == consume(p, "RightBrace", "Expect '}' after block.") IN
         IF ~c.ok THEN c ELSE Good(c.p, stmts)

block_push(stmts, res) ==
    IF ~res.ok THEN res ELSE block_statements(res.p, Append(stmts, res.node))

if_statement(p) ==
    LET c == consume(p, "LeftParen", "Expect '(' after block.") IN
    IF ~c.ok THEN c ELSE if_condition(method("expression", c.p))

if_condition(condition) ==
    IF ~condition.ok THEN condition
    ELSE LET c == consume(condition.p, "RightParen", "Expect ')' after block.") IN
         IF ~c.ok THEN c ELSE if_then(condition.node, method("statement", c.p))

if_then(condition, then_branch) ==
    IF ~then_branch.ok THEN then_branch
    ELSE IF match_token(then_branch.p, <<"Else">>)
         THEN if_else(condition, then_branch.node, method("statement", advance(then_branch.p)))
    ELSE Good(then_branch.p, IfStmt(condition, then_branch.node, None))

if_else(condition, then_branch, inner_statement) ==
    IF ~inner_statement.ok THEN inner_statement
    ELSE Good(inner_statement.p,
              IfStmt(condition, then_branch, Some(inner_statement.node)))

or(p) == or_loop(method("and", p))

or_loop(expr) ==
    IF ~expr.ok THEN expr
    ELSE IF match_token(expr.p, <<"Or">>)
         THEN or_right(expr.node, previous(advance(expr.p)), method("and", advance(expr.p)))
    ELSE expr

or_right(expr, operator, right) ==
    IF ~right.ok THEN right
    ELSE or_loop(Good(right.p, LogicalExpr(expr, operator, right.node)))

and(p) == and_loop(method("equality", p))

and_loop(expr) ==
    IF ~expr.ok THEN expr
    ELSE IF match_token(expr.p, <<"And">>)
         THEN and_right(expr.node, previous(advance(expr.p)),
                        method("equality", advance(expr.p)))
    ELSE expr

and_right(expr, operator, right) ==
    IF ~right.ok THEN right
    ELSE and_loop(Good(right.p, LogicalExpr(expr, operator, right.node)))

while_statement(p) ==
    LET c == consume(p, "LeftParen", "Expect '(' after block.") IN
    IF ~c.ok THEN c ELSE while_condition(method("expression", c.p))

while_condition(condition) ==
    IF ~condition.ok THEN condition
    ELSE LET c == consume(condition.p, "RightParen", "Expect ')' after block.") IN
         IF ~c.ok THEN c ELSE while_body(condition.node, method("statement", c.p))

while_body(condition, body) ==
    IF ~body.ok THEN body ELSE Good(body.p, WhileStmt(condition, body.node))

for_statement(p) ==
    LET c == consume(p, "LeftParen", "Expect '(' after for.") IN
    IF ~c.ok THEN c
    ELSE IF match_token(c.p, <<"Semicolon">>) THEN for_clauses(None, advance(c.p))
    ELSE IF match_token(c.p, <<"Var">>)
         THEN for_initializer(method("var_declaration", advance(c.p)))
    ELSE for_initializer(method("expression_statement", c.p))

for_initializer(res) ==
    IF ~res.ok THEN res ELSE for_clauses(Some(res.node), res.p)

\* from `let mut condition` on
for_clauses(initializer, p) ==
    IF ~check(p, "Semicolon")
    THEN for_condition(initializer, method("expression", p))
    ELSE for_increment(initializer, None, p)

for_condition(initializer, res) ==
    IF ~res.ok THEN res ELSE for_increment(initializer, Some(res.node), res.p)

\* from the consume of the `;` after the condition on
for_increment(initializer, condition, p) ==
    LET c == consume(p, "Semicolon", "Expect ';' after loop condition.") IN
    IF ~c.ok THEN c
    ELSE IF ~check(c.p, "RightParen")
         THEN for_increment_value(initializer, condition, method("expression", c.p))
    ELSE for_body(initializer, condition, None, c.p)

for_increment_value(initializer, condition, res) ==
    IF ~res.ok THEN res ELSE for_body(initializer, condition, Some(res.node), res.p)

\* from the consume of the `)` on
for_body(initializer, condition, increment, p) ==
    LET c == consume(p, "RightParen", "Expect ')' after for clause.") IN
    IF ~c.ok THEN c
    ELSE for_desugar(initializer, condition, increment, method("statement", c.p))

\* from `if let Some(inc) = increment` on
for_desugar(initializer, condition, increment, res) ==
    IF ~res.ok THEN res
    ELSE LET body == IF increment # None
                     THEN BlockStmt(<<res.node, ExpressionStmt(increment[1])>>)
                     ELSE res.node
             cond == IF condition = None
                     THEN Some(LiteralExpr(Some(LitFalse)))
                     ELSE condition
             loop == WhileStmt(cond[1], body)
         IN  Good(res.p, IF initializer # None
                         THEN BlockStmt(<<initializer[1], loop>>)
                         ELSE loop)

call(p) == call_loop(method("primary", p))

call_loop(expr) ==
    IF ~expr.ok THEN expr
    ELSE IF match_token(expr.p, <<"LeftParen">>)
         THEN call_loop(finish_call(advance(expr.p), expr.node))
    ELSE expr

finish_call_paren(p, expr, arguments) ==
    LET paren == consume(p, "RightParen", "Expected ')' after arguments") IN
    IF ~paren.ok THEN paren ELSE Good(paren.p, CallExpr(expr, paren.token, arguments))

finish_call(p, expr) ==
    IF ~check(p, "RightParen")
    THEN finish_call_arguments(p, expr, << >>)
    ELSE finish_call_paren(p, expr, << >>)

\* one round of the argument loop
finish_call_arguments(p, expr, arguments) ==
    IF Len(arguments) >= 255
    THEN Fail(p, ParseError(peek(p), p.current, "Can't have more than 255 arguments."))
    ELSE finish_call_push(expr, arguments, method("expression", p))

finish_call_push(expr, arguments, res) ==
    IF ~res.ok THEN res
    ELSE IF match_token(res.p, <<"Comma">>)
         THEN finish_call_arguments(advance(res.p), expr, Append(arguments, res.node))
    ELSE finish_call_paren(res.p, expr, Append(arguments, res.node))

fun_declaration(p, kind) ==
    LET name == consume(p, "Identifier", "Expect " \o kind \o " name")
        paren == consume(name.p, "LeftParen", "Expect '(' after " \o kind \o " name.")
    IN  IF ~name.ok THEN name
        ELSE IF ~paren.ok THEN paren
        ELSE IF ~check(paren.p, "RightParen")
             THEN fun_parameters(paren.p, kind, name.token, << >>)
        ELSE fun_braces(paren.p, kind, name.token, << >>)

\* one round of the parameter loop
fun_parameters(p, kind, name, parameters) ==
    IF Len(parameters) >= 255
    THEN Fail(p, ParseError(peek(p), p.current, "Can't have more than 255 arguments."))
    ELSE LET c == consume(p, "Identifier", "Expect parameter name.") IN
         IF ~c.ok THEN c
         ELSE IF match_token(c.p, <<"Comma">>)
              THEN fun_parameters(advance(c.p), kind, name, Append(parameters, c.token))
         ELSE fun_braces(c.p, kind, name, Append(parameters, c.token))

\* from the consume of the `)` after the parameters on
fun_braces(p, kind, name, parameters) ==
    LET paren == consume(p, "RightParen", "Expect ')' after parameters.")
        brace == consume(paren.p, "LeftBrace", "Expect '{' before " \o kind \o " body.")
    IN  IF ~paren.ok THEN paren
        ELSE IF ~brace.ok THEN brace
        ELSE fun_body(name, parameters, method("block", brace.p))

fun_body(name, parameters, body) ==
    IF ~body.ok THEN body
    ELSE Good(body.p, FunctionStmt(name, parameters, body.node))

\* `self.<name>()`: the parsing method of that name, run on p
method(name, p) ==
    CASE name = "expression" -> expression(p)
      [] name = "assignment" -> assignment(p)
      [] name = "or" -> or(p)
      [] name = "and" -> and(p)
      [] name = "equality" -> equality(p)
      [] name = "comparison" -> comparison(p)
      [] name = "term" -> term(p)
      [] name = "factor" -> factor(p)
      [] name = "unary" -> unary(p)
      [] name = "call" -> call(p)
      [] name = "primary" -> primary(p)
      [] name = "statement" -> statement(p)
      [] name = "declaration" -> declaration(p)
      [] name = "block" -> block(p)
      [] name = "print_statement" -> print_statement(p)
      [] name = "expression_statement" -> expression_statement(p)
      [] name = "var_declaration" -> var_declaration(p)
      [] name = "if_statement" -> if_statement(p)
      [] name = "while_statement" -> while_statement(p)
      [] name = "for_statement" -> for_statement(p)

(***************************************************************************)
(* Parser::parse as a state machine: one round of `while !self.is_end()`   *)
(* per step.  parsed is the local `statements`.                            *)
(***************************************************************************)
Parser == [tokens |-> tokens, current |-> current, trail |-> trail]

\* `self.declaration()?` returned Ok: the statement is pushed
parse_push(res) ==
    /\ res.ok
    /\ parsed' = Append(parsed, res.node)
    /\ current' = res.p.current
    /\ trail' = res.p.trail
    /\ UNCHANGED <<tokens, pstatus, perror>>

\* `self.declaration()?` returned Err: parse returns it
parse_fail(res) ==
    /\ ~res.ok
    /\ current' = res.p.current
    /\ trail' = res.p.trail
    /\ pstatus' = "returned"
    /\ perror' = Some(res.err)
    /\ UNCHANGED <<tokens, parsed>>

\* the loop is over: Ok(statements)
parse_return ==
    /\ pstatus = "parsing"
    /\ is_end(Parser)
    /\ pstatus' = "returned"
    /\ UNCHANGED <<tokens, current, parsed, perror, trail>>

(***************************************************************************)
(* The values the variables of the other components keep while one         *)
(* component runs.                                                         *)
(***************************************************************************)
EnvIdle == env = Environment_default /\ last = IdleLast
InterpIdle ==
    /\ statements = << >>
    /\ pc = 0
    /\ interp = Interpreter_new
    /\ status = "idle"
    /\ result = None
    /\ ran = << >>
ParserIdle ==
    /\ tokens = << >>
    /\ current = 0
    /\ parsed = << >>
    /\ pstatus = "idle"
    /\ perror = None
    /\ trail = << >>

(***************************************************************************)
(* The scope chain on its own: define, get, assign and new applied to      *)
(* every chain of up to MaxDepth scopes.                                   *)
(***************************************************************************)
InitEnv == EnvInit /\ InterpIdle /\ ParserIdle

NextEnv ==
    \/ \E name \in Names, value \in EnvValues :
          DoDefine(name, value) /\ UNCHANGED <<interpVars, parserVars>>
    \/ \E name \in Names :
          DoGet(name) /\ UNCHANGED <<interpVars, parserVars>>
    \/ \E name \in Names, value \in EnvValues :
          DoAssign(name, value) /\ UNCHANGED <<interpVars, parserVars>>
    \/ DoNew /\ UNCHANGED <<interpVars, parserVars>>

SpecEnv == InitEnv /\ [][NextEnv]_vars

\* C3: get returns the value bound in the innermost scope that defines the
\* name, and assign overwrites the binding of that scope only: every other
\* scope of the chain, inner and outer, keeps its bindings, and the chain
\* keeps its length.
C3_InnermostOwner ==
    /\ (last.op = "get" /\ Defines(last.before, last.name)) =>
          /\ last.res.ok
          /\ last.res.value =
                ScopeAt(last.before, Owner(last.before, last.name)).values[last.name]
          /\ env = last.before
    /\ (last.op = "assign" /\ Defines(last.before, last.name)) =>
          /\ last.res.ok
          /\ Depth(env) = Depth(last.before)
          /\ \A i \in 0..Depth(last.before) :
                ScopeAt(env, i).values =
                    IF i = Owner(last.before, last.name)
                    THEN [ScopeAt(last.before, i).values EXCEPT ![last.name] = last.value]
                    ELSE ScopeAt(last.before, i).values

\* an assignment whose owner is an enclosing scope, with the same name bound
\* to another value further out
C3_Witness ==
    /\ last.op = "assign"
    /\ Defines(last.before, last.name)
    /\ Owner(last.before, last.name) >= 1
    /\ \E j \in (Owner(last.before, last.name) + 1)..Depth(last.before) :
          /\ last.name \in DOMAIN ScopeAt(last.before, j).values
          /\ ScopeAt(last.before, j).values[last.name] # last.value
    /\ ScopeAt(last.before, Owner(last.before, last.name)).values[last.name] # last.value

\* C4: get and assign of a name that no scope of the chain defines fail with
\* a RuntimeError that carries the name, and the failed assign leaves the
\* whole chain as it was.
C4_UndefinedName ==
    /\ (last.op = "get" /\ ~Defines(last.before, last.name)) =>
          /\ ~last.res.ok
          /\ last.res.err.kind = "RuntimeError"
          /\ last.res.err.lexeme = last.name
    /\ (last.op = "assign" /\ ~Defines(last.before, last.name)) =>
          /\ ~last.res.ok
          /\ last.res.err.kind = "RuntimeError"
          /\ last.res.err.lexeme = last.name
          /\ env = last.before

\* a failed assign through a chain of at least two scopes that binds other
\* names
C4_Witness ==
    /\ last.op = "assign"
    /\ ~Defines(last.before, last.name)
    /\ ~last.res.ok
    /\ Depth(last.before) >= 1
    /\ \E n \in Names : Defines(last.before, n)

(***************************************************************************)
(* The token sequences parse is given: `for` statements put together from  *)
(* clause by clause choices, each with the node the clause stands for,     *)
(* between optional statements, and closed by the end-of-input token.      *)
(***************************************************************************)
NumberToken(n) == Token("Number", ToString(n), Some(LitNumber(n)))

PrintITokens == <<Op("Print"), Ident("i"), Op("Semicolon")>>
PrintI == PrintStmt(Variable("i"))

ForInitializers ==
    {[toks |-> <<Op("Semicolon")>>, node |-> None],
     [toks |-> <<Op("Var"), Ident("i"), Op("Equal"), NumberToken(0), Op("Semicolon")>>,
      node |-> Some(VarStmt(Ident("i"), Some(Num(0))))],
     [toks |-> <<Ident("i"), Op("Equal"), NumberToken(0), Op("Semicolon")>>,
      node |-> Some(ExpressionStmt(Assign("i", Num(0))))]}

ForConditions ==
    {[toks |-> << >>, node |-> None],
     [toks |-> <<Ident("i"), Op("Less"), NumberToken(2)>>,
      node |-> Some(Binary(Variable("i"), "Less", Num(2)))],
     [toks |-> <<Op("True")>>, node |-> Some(LiteralExpr(Some(LitTrue)))]}

ForIncrements ==
    {[toks |-> << >>, node |-> None],
     [toks |-> <<Ident("i"), Op("Equal"), Ident("i"), Op("Plus"), NumberToken(1)>>,
      node |-> Some(Assign("i", Binary(Variable("i"), "Plus", Num(1))))]}

ForBodies ==
    {[toks |-> PrintITokens, node |-> Some(PrintI)],
     [toks |-> <<Op("LeftBrace")>> \o PrintITokens \o <<Op("RightBrace")>>,
      node |-> Some(BlockStmt(<<PrintI>>))],
     [toks |-> <<Op("Print"), Op("Semicolon")>>, node |-> None],
     [toks |-> <<Op("RightBrace")>>, node |-> None]}

Around == {[toks |-> << >>, nodes |-> << >>], [toks |-> PrintITokens, nodes |-> <<PrintI>>]}

ForSource(before, initializer, condition, increment, body, after) ==
    before.toks \o <<Op("For"), Op("LeftParen")>> \o initializer.toks
        \o condition.toks \o <<Op("Semicolon")>> \o increment.toks
        \o <<Op("RightParen")>> \o body.toks \o after.toks \o <<Op("Eof")>>

ForSources ==
    {ForSource(before, initializer, condition, increment, body, after) :
        before \in Around, initializer \in ForInitializers,
        condition \in ForConditions, increment \in ForIncrements,
        body \in ForBodies, after \in Around}

\* malformed and well-formed statements in a row: `print ;`, `var = 1 ;`,
\* `1 + ;` are malformed and end with their `;`
RecoveryPieces ==
    {[toks |-> PrintITokens, nodes |-> <<PrintI>>, errors |-> 0],
     [toks |-> <<Op("Print"), Op("Semicolon")>>, nodes |-> << >>, errors |-> 1],
     [toks |-> <<Op("Var"), Op("Equal"), NumberToken(1), Op("Semicolon")>>,
      nodes |-> << >>, errors |-> 1],
     [toks |-> <<NumberToken(1), Op("Plus"), Op("Semicolon")>>,
      nodes |-> << >>, errors |-> 1]}

RECURSIVE Pieces(_, _)
Pieces(seq, i) ==
    IF i > Len(seq) THEN [toks |-> << >>, nodes |-> << >>, errors |-> 0]
    ELSE LET rest == Pieces(seq, i + 1) IN
         [toks |-> seq[i].toks \o rest.toks, nodes |-> seq[i].nodes \o rest.nodes,
          errors |-> seq[i].errors + rest.errors]

RecoverySources ==
    {src \in {Pieces(seq, 1) : seq \in SeqsUpTo(RecoveryPieces, MaxPieces)} :
        src.errors > 0}

\* print <prefix operators> <operand> ;
Operands ==
    {[toks |-> <<Op("True")>>, node |-> LiteralExpr(Some(LitTrue))],
     [toks |-> <<NumberToken(1)>>, node |-> Num(1)],
     [toks |-> <<Ident("i")>>, node |-> Variable("i")],
     [toks |-> <<Op("LeftParen"), NumberToken(1), Op("RightParen")>>,
      node |-> GroupingExpr(Num(1))]}

RECURSIVE Prefixed(_, _, _)
Prefixed(operators, i, operand) ==
    IF i > Len(operators) THEN operand
    ELSE LET right == Prefixed(operators, i + 1, operand) IN
         [toks |-> <<Op(operators[i])>> \o right.toks,
          node |-> UnaryExpr(Op(operators[i]), right.node)]

UnarySources ==
    {Prefixed(operators, 1, operand) :
        operators \in SeqsUpTo({"Bang", "Minus"}, MaxPrefix) \ {<< >>},
        operand \in Operands}

\* a function declaration, a call with arguments, if/else, while, logical
\* operators, a block with a statement that fails inside it, a declaration
\* without a body, an open call and an open grouping
SampleSources ==
    {<<Op("Fun"), Ident("f"), Op("LeftParen"), Ident("x"), Op("Comma"), Ident("y"),
       Op("RightParen"), Op("LeftBrace")>> \o PrintITokens \o <<Op("RightBrace"),
       Ident("f"), Op("LeftParen"), NumberToken(1), Op("Comma"), Ident("i"),
       Op("RightParen"), Op("Semicolon")>>,
     <<Op("If"), Op("LeftParen"), Ident("i"), Op("Or"), Op("True"), Op("And"),
       Op("Nil"), Op("RightParen")>> \o PrintITokens \o <<Op("Else")>> \o PrintITokens,
     <<Op("While"), Op("LeftParen"), Ident("i"), Op("EqualEqual"), NumberToken(1),
       Op("RightParen"), Op("LeftBrace")>> \o PrintITokens \o <<Op("RightBrace")>>,
     <<Op("LeftBrace")>> \o PrintITokens \o <<Op("Print"), Op("Semicolon")>>
        \o PrintITokens \o <<Op("RightBrace")>>,
     <<Op("Fun"), Ident("f"), Op("LeftParen"), Op("RightParen"), Op("Semicolon")>>,
     <<Ident("f"), Op("LeftParen"), NumberToken(1)>>,
     <<Op("LeftParen"), NumberToken(1), Op("Semicolon")>> \o PrintITokens}

\* every sequence of up to MaxTokens tokens of the alphabet
Alphabet ==
    {Op("Semicolon"), Op("Print"), Op("Var"), Ident("i"), Op("Equal"), NumberToken(1),
     Op("Bang"), Op("Plus"), Op("RightParen"), Op("LeftBrace"), Op("RightBrace")}

TokenSequences == SeqsUpTo(Alphabet, MaxTokens)

\* what the scanner hands over: the tokens and the end-of-input token last
Sources ==
    ForSources
    \cup {src.toks \o <<Op("Eof")>> : src \in RecoverySources}
    \cup {<<Op("Print")>> \o src.toks \o <<Op("Semicolon"), Op("Eof")>> : src \in UnarySources}
    \cup {toks \o <<Op("Eof")>> : toks \in SampleSources \cup TokenSequences}

InitParse ==
    /\ tokens \in Sources
    /\ current = 0
    /\ parsed = << >>
    /\ pstatus = "parsing"
    /\ perror = None
    /\ trail = << >>
    /\ EnvIdle
    /\ InterpIdle

NextParse ==
    \/ /\ pstatus = "parsing" /\ ~is_end(Parser)
       /\ parse_push(method("declaration", Parser))
       /\ UNCHANGED <<envVars, interpVars>>
    \/ /\ pstatus = "parsing" /\ ~is_end(Parser)
       /\ parse_fail(method("declaration", Parser))
       /\ UNCHANGED <<envVars, interpVars>>
    \/ parse_return /\ UNCHANGED <<envVars, interpVars>>

SpecParse == InitParse /\ [][NextParse]_vars

\* the `while` a `for` statement stands for
ClaimedFor(initializer, condition, increment, body) ==
    LET inner == IF increment.node # None
                 THEN BlockStmt(<<body.node[1], ExpressionStmt(increment.node[1])>>)
                 ELSE body.node[1]
        loop == WhileStmt(IF condition.node = None
                          THEN LiteralExpr(Some(LitTrue))
                          ELSE condition.node[1], inner)
    IN  IF initializer.node # None
        THEN BlockStmt(<<initializer.node[1], loop>>)
        ELSE loop

\* C10: a `for` statement parses to a `while` whose condition is the given
\* condition, or the literal true when the condition clause is absent, whose
\* body is followed by the increment, and which a block with the initializer
\* in front wraps.
C10_ForDesugaring ==
    \A before \in Around, initializer \in ForInitializers,
       condition \in ForConditions, increment \in ForIncrements,
       body \in ForBodies, after \in Around :
        (/\ tokens = ForSource(before, initializer, condition, increment, body, after)
         /\ body.node # None
         /\ pstatus = "returned") =>
            /\ perror = None
            /\ parsed = before.nodes
                        \o <<ClaimedFor(initializer, condition, increment, body)>>
                        \o after.nodes

\* the declarations that failed, as indices of the cursor history
Failed == {i \in DOMAIN trail : trail[i].op = "declaration" /\ trail[i].err # None}

StatementStarts == {"Class", "Fun", "Var", "For", "If", "While", "Print", "Return"}

\* C11: after a declaration fails with a ParseError the parser has passed a
\* `;` or stands on a token that starts a statement (or on the end of input),
\* and parse goes on with the next declaration: parse returns at the end of
\* input with every well-formed declaration parsed, the ones after a malformed
\* one included, and one diagnostic for every malformed statement.
C11_RecoveryResumes ==
    \A src \in RecoverySources :
        (tokens = src.toks \o <<Op("Eof")>> /\ pstatus = "returned") =>
            /\ \A i \in Failed :
                  \/ tokens[trail[i].to + 1].token_type \in StatementStarts \cup {"Eof"}
                  \/ trail[i].to > 0 /\ tokens[trail[i].to].token_type = "Semicolon"
            /\ is_end(Parser)
            /\ parsed = src.nodes
            /\ Cardinality(Failed) = src.errors

\* C13: `!` or `-` in front of a well-formed operand parses to a Unary node
\* with that operator token and the operand's expression, nested to the right
\* for repeated prefixes, and exactly the operator and operand tokens are
\* consumed: `print <prefixes> <operand> ;` parses without error to the Print
\* statement of that Unary expression.
C13_PrefixParsesToUnary ==
    \A src \in UnarySources :
        (/\ tokens = <<Op("Print")>> \o src.toks \o <<Op("Semicolon"), Op("Eof")>>
         /\ pstatus = "returned") =>
            /\ perror = None
            /\ parsed = <<PrintStmt(src.node)>>

\* the entries of the cursor history that are calls of advance, previous and
\* consume, in the order of the calls
Moves == SelectSeq(trail, LAMBDA e : e.op # "declaration")

\* the cursor never decreases, never passes the end-of-input token, changes
\* only in advance, and previous is not called at cursor 0; a declaration
\* that succeeds has advanced the cursor; a failing consume leaves the cursor
\* and reports the token at the cursor and the cursor
CursorSafe ==
    /\ current \in 0..(Len(tokens) - 1)
    /\ Len(parsed) <= current
    /\ current = IF Moves = << >> THEN 0 ELSE Moves[Len(Moves)].to
    /\ \A i \in 1..(Len(Moves) - 1) : Moves[i].to = Moves[i + 1].from
    /\ \A i \in DOMAIN trail :
          LET e == trail[i] IN
          /\ e.from <= e.to
          /\ e.to <= Len(tokens) - 1
          /\ e.op \in {"advance", "previous"} => e.to > 0
          /\ e.op = "advance" => e.to \in {e.from, e.from + 1}
          /\ (e.op = "declaration" /\ e.err = None) => e.to > e.from
          /\ e.op = "consume" =>
                /\ e.to = e.from
                /\ e.err # None
                /\ e.err[1].token = tokens[e.from + 1]
                /\ e.err[1].current = e.from

\* a round of the loop of parse returns or moves the cursor forward, so the
\* loop makes at most as many rounds as there are tokens
RoundAdvances == pstatus' = "returned" \/ (pstatus' = "parsing" /\ current' > current)

\* C15: for every token sequence that ends with its only end-of-input token,
\* parse terminates (every round of its loop returns or advances the cursor,
\* which the end-of-input token bounds), and throughout the cursor never
\* decreases and never passes the end-of-input token, previous is never
\* called at cursor 0, every accepted declaration advances the cursor, and a
\* failing consume leaves the cursor in place and reports the token at the
\* cursor with the cursor.
C15_CursorSafety == []CursorSafe /\ [][RoundAdvances]_vars

\* parse has returned after a declaration was accepted and a later one failed
\* in consume, with tokens left between the error and the end of input
C15_Witness ==
    /\ pstatus = "returned"
    /\ parsed # << >>
    /\ perror # None
    /\ \E i \in DOMAIN trail :
          /\ trail[i].op = "consume"
          /\ trail[i].from > 0
          /\ trail[i].from < Len(tokens) - 1
    /\ \E i \in DOMAIN trail : trail[i].op = "previous"

(***************************************************************************)
(* The interpreter: a fresh Interpreter runs one program.                  *)
(***************************************************************************)
Init ==
    /\ statements \in Programs
    /\ pc = 1
    /\ interp = Interpreter_new
    /\ status = "running"
    /\ result = None
    /\ ran = << >>
    /\ EnvIdle
    /\ ParserIdle

Next ==
    \/ /\ status = "running" /\ pc <= Len(statements)
       /\ interpret_next(execute(interp, statements[pc]))
       /\ UNCHANGED <<envVars, parserVars>>
    \/ /\ status = "running" /\ pc <= Len(statements)
       /\ interpret_fail(execute(interp, statements[pc]))
       /\ UNCHANGED <<envVars, parserVars>>
    \/ interpret_return /\ UNCHANGED <<envVars, parserVars>>

Spec == Init /\ [][Next]_vars

\* C1: when execute_block returns, with or without an error, the current
\* scope is the scope that was current when the block was entered: the chain
\* has the same scopes, each defining the same names.
C1_BlockRestoresScope ==
    \A i \in DOMAIN interp.blocks :
        Shape(interp.blocks[i].after) = Shape(interp.blocks[i].before)

\* C2: a block that declares `var a` while an outer `a` is defined prints its
\* own value inside, and after the block a read of `a` yields the outer value
\* again: `var a = 1; { var a = 2; print a; } print a;` prints 2, then 1.
C2_ShadowingConfined ==
    /\ \A i \in DOMAIN ran :
          (/\ statements[i] = ShadowBlock
           /\ ran[i].ok
           /\ Defines(ran[i].before.environment, "a")) =>
              /\ ran[i].after.out = Append(ran[i].before.out, "2")
              /\ Environment_get(ran[i].after.environment, Ident("a")) =
                    Environment_get(ran[i].before.environment, Ident("a"))
    /\ (statements = <<VarA1, ShadowBlock, PrintA>> /\ status = "returned") =>
          interp.out = <<"2", "1">>

\* C5: interpret executes the statements in sequence order; at the first
\* failing statement it returns that statement's error as it is, and nothing
\* runs afterwards: the output and the scopes stay as the failing statement
\* left them.  It returns Ok only after every statement has succeeded.
C5_StopsAtFirstError ==
    /\ \A i \in DOMAIN ran :
          /\ ran[i].index = i
          /\ i > 1 => ran[i].before = ran[i - 1].after
          /\ ~ran[i].ok =>
                /\ i = Len(ran)
                /\ status = "returned"
                /\ result = Some([ok |-> FALSE, err |-> ran[i].err])
                /\ interp = ran[i].after
    /\ (status = "returned" /\ result = Some([ok |-> TRUE])) =>
          /\ Len(ran) = Len(statements)
          /\ \A i \in DOMAIN ran : ran[i].ok
    /\ status = "returned" => result # None

\* interpret has returned the error of a statement that is followed by
\* further statements, after earlier statements printed and defined
C5_Witness ==
    /\ status = "returned"
    /\ result # None /\ ~result[1].ok
    /\ Len(ran) >= 2
    /\ Len(ran) < Len(statements)
    /\ ran[Len(ran)].before.out # << >>
    /\ statements[Len(ran) + 1].stmt \in {"Print", "Var"}

(***************************************************************************)
(* What the i-th top-level statement did: the evaluate calls it made.      *)
(***************************************************************************)
NewEvals(i) ==
    SubSeq(ran[i].after.evals, Len(ran[i].before.evals) + 1, Len(ran[i].after.evals))

IsPrefix(p, q) == Len(p) <= Len(q) /\ \A j \in DOMAIN p : p[j] = q[j]

Count(q, x) == Cardinality({j \in DOMAIN q : q[j].expr = x})

\* equality as the language defines it
ClaimedEqual(l, r) ==
    \/ l.t = "Str" /\ r.t = "Str" /\ l.s = r.s
    \/ l.t = "Number" /\ r.t = "Number" /\ l.n = r.n
    \/ l.t = "Bool" /\ r.t = "Bool" /\ l.b = r.b
    \/ l.t = "Nil" /\ r.t = "Nil"

\* C6: for all values l and r, `l == r` evaluates to the language's equality
\* of l and r, and `l != r` to its negation.
C6_BangEqualNegates ==
    \A i \in DOMAIN interp.evals :
        LET e == interp.evals[i] IN
        (/\ e.expr.expr = "Binary"
         /\ e.expr.operator.token_type \in {"EqualEqual", "BangEqual"}
         /\ e.expr.left.expr = "Literal" /\ e.expr.right.expr = "Literal") =>
            LET l == interp.evals[i - 2].value
                r == interp.evals[i - 1].value
            IN  /\ e.ok
                /\ e.value = IF e.expr.operator.token_type = "EqualEqual"
                             THEN Bool(ClaimedEqual(l, r))
                             ELSE Bool(~ClaimedEqual(l, r))

IsCallStmt(st) == st.stmt = "Expression" /\ st.expression.expr = "Call"

\* the evaluate calls of the i-th statement for the callee and the arguments
CallOperands(i) ==
    LET theCall == statements[i].expression
        IsOperand(e) == e.expr = theCall.callee
                        \/ \E j \in DOMAIN theCall.arguments : e.expr = theCall.arguments[j]
    IN  SelectSeq(NewEvals(i), IsOperand)

\* C7: a call evaluates the callee, then the arguments from left to right.
\* When all of them have a value and the callee's value is a Str, Number, Bool
\* or Nil, or a function whose declared parameter count differs from the
\* number of arguments, the call fails with InterpreterError and nothing is
\* invoked: no block runs, nothing is printed.  A body runs only for a
\* function called with as many arguments as it declares parameters.
C7_CallChecks ==
    \A i \in DOMAIN ran :
        IsCallStmt(statements[i]) =>
            LET theCall == statements[i].expression
                ops == CallOperands(i)
                callee == ops[1]
                n == Len(theCall.arguments)
                evaluated == Len(ops) = n + 1 /\ \A j \in DOMAIN ops : ops[j].ok
                invoked == Len(ran[i].after.blocks) > Len(ran[i].before.blocks)
                arity == Len(callee.value.function.declaration.params)
            IN  /\ Len(ops) >= 1
                /\ IsPrefix([j \in DOMAIN ops |-> ops[j].expr],
                            <<theCall.callee>> \o theCall.arguments)
                /\ \A j \in 1..(Len(ops) - 1) : ops[j].ok
                /\ NewEvals(i)[1] = callee
                /\ ~evaluated => ~ran[i].ok /\ ~invoked
                /\ (evaluated /\ callee.value.t \in {"Str", "Number", "Bool", "Nil"}) =>
                      /\ ~ran[i].ok /\ ran[i].err = InterpreterError
                      /\ ~invoked
                      /\ ran[i].after.out = ran[i].before.out
                /\ (evaluated /\ callee.value.t = "Func" /\ arity # n) =>
                      /\ ~ran[i].ok /\ ran[i].err = InterpreterError
                      /\ ~invoked
                      /\ ran[i].after.out = ran[i].before.out
                /\ (evaluated /\ callee.value.t = "Func" /\ arity = n) => invoked
                /\ invoked => evaluated /\ callee.value.t = "Func" /\ arity = n

\* a function called with fewer arguments than parameters, after an argument
\* that assigns was evaluated
C7_Witness ==
    \E i \in DOMAIN ran :
        /\ IsCallStmt(statements[i])
        /\ Len(CallOperands(i)) = Len(statements[i].expression.arguments) + 1
        /\ CallOperands(i)[1].ok /\ CallOperands(i)[1].value.t = "Func"
        /\ Len(statements[i].expression.arguments) = 1
        /\ Len(CallOperands(i)[1].value.function.declaration.params) = 2
        /\ ran[i].after.environment # ran[i].before.environment
        /\ ~ran[i].ok /\ ran[i].err = InterpreterError

\* C8: a call without arguments whose callee evaluates to a Native value
\* succeeds with a Number and leaves every scope as it was.
C8_NativeCallable ==
    \A i \in DOMAIN ran :
        (/\ IsCallStmt(statements[i])
         /\ statements[i].expression.arguments = << >>
         /\ NewEvals(i)[1].ok /\ NewEvals(i)[1].value.t = "Native") =>
            /\ ran[i].ok
            /\ NewEvals(i)[Len(NewEvals(i))].ok
            /\ NewEvals(i)[Len(NewEvals(i))].value.t = "Number"
            /\ ran[i].after.environment = ran[i].before.environment
            /\ ran[i].after.globals = ran[i].before.globals

IsLogicalStmt(st) == st.stmt = "Expression" /\ st.expression.expr = "Logical"

Truthy(v) == v # Bool(FALSE) /\ v # Nil

\* C9: `or` with a truthy left value and `and` with a falsy left value yield
\* the left value itself without evaluating the right operand: no evaluate
\* call, no error and no scope change comes from it.  Otherwise the right
\* operand is evaluated exactly once, after the left, and its outcome (value
\* or error) is the outcome of the expression.
C9_ShortCircuit ==
    \A i \in DOMAIN ran :
        IsLogicalStmt(statements[i]) =>
            LET x == statements[i].expression
                new == NewEvals(i)
                left == new[1]
                whole == new[Len(new)]
                between == SubSeq(new, 2, Len(new) - 1)
                short == IF x.operator.token_type = "Or"
                         THEN Truthy(left.value) ELSE ~Truthy(left.value)
            IN  /\ left.expr = x.left
                /\ whole.expr = x
                /\ ~left.ok => (between = << >> /\ ~whole.ok /\ whole.err = left.err)
                /\ (left.ok /\ short) =>
                      /\ between = << >>
                      /\ whole.ok /\ whole.value = left.value
                      /\ ran[i].ok
                      /\ ran[i].after.environment = ran[i].before.environment
                /\ (left.ok /\ ~short) =>
                      /\ Count(between, x.right) = 1
                      /\ between[Len(between)].expr = x.right
                      /\ whole.ok = between[Len(between)].ok
                      /\ whole.ok => whole.value = between[Len(between)].value
                      /\ ~whole.ok => whole.err = between[Len(between)].err

\* `or` short-circuits on a truthy non-boolean left value past a right
\* operand that would assign
C9_Witness ==
    \E i \in DOMAIN ran :
        /\ IsLogicalStmt(statements[i])
        /\ statements[i].expression.operator.token_type = "Or"
        /\ statements[i].expression.right.expr = "Assign"
        /\ NewEvals(i)[1].ok /\ NewEvals(i)[1].value = Number(0)
        /\ ran[i].ok
        /\ Len(NewEvals(i)) = 2

\* C12: a Function statement binds the name to a Func that holds the scope
\* active at the declaration itself: the function reads a variable of that
\* scope with the value of a later assignment, whether it is called in the
\* defining block, from a block that shadows the variable, or through another
\* name after the defining block has exited.  In each program the call
\* succeeds and prints the value assigned after the declaration.
C12_ClosureCapture ==
    \A later \in Laters :
        (/\ statements \in {ClosureInBlock(later.expr), ClosureShadowed(later.expr),
                            ClosureEscaped(later.expr)}
         /\ status = "returned") =>
            /\ result = Some([ok |-> TRUE])
            /\ interp.out = <<later.text>>

\* C14: the number of enclosing links of the current scope is the number of
\* blocks being executed: between two top-level statements the current scope
\* has no enclosing scope, and a block (the body of a loop on every iteration
\* included) returns with the chain as long as it was when it was entered.
C14_DepthTracksNesting ==
    /\ Depth(interp.environment) = 0
    /\ \A i \in DOMAIN interp.blocks :
          Depth(interp.blocks[i].after) = Depth(interp.blocks[i].before)

====
